---- MODULE Spec2Model ----
(***************************************************************************)
(* The graph workflow engine of the mini code-review agent:                *)
(*   app/engine/engine.py       GraphEngine.run_graph, _decide_next_node    *)
(*   app/engine/registry.py     ToolRegistry                                *)
(*   app/engine/models.py       CodeReviewState, NodeConfig, Graph, ...     *)
(*   app/storage/memory_store.py GraphStore, RunStore                       *)
(*   app/workflows/code_review.py the four tools and the default graph      *)
(*   app/main.py                /graph/create, /graph/run, /graph/state     *)
(*                                                                         *)
(* Floats (quality_score, threshold, condition_value) are kept in          *)
(* hundredths: 0.8 is 80.  Python objects that are shared by reference     *)
(* (the GraphRun held by the RunStore and by the engine) live in `heap`    *)
(* and are named by their index in it.                                     *)
(***************************************************************************)
EXTENDS Integers, Sequences, FiniteSets, TLC

\* ------------------------------------------------------------------ bounds
MaxRequests == 3  \* requests and outside calls served in one behaviour
MaxN == 2         \* largest max_iterations an engine is built with

\* ------------------------------------------------------- Python constants
None == "None"            \* None of an Optional[str]
NoneNum == -1             \* None of an Optional[float]

Falsy(s) == s = None \/ s = ""

Min(a, b) == IF a <= b THEN a ELSE b
Max(a, b) == IF a >= b THEN a ELSE b

\* ------------------------------------------------------------ data model
\* CodeReviewState(code=..., iteration=...), the other fields at their defaults.
CodeReviewState(code, iteration) ==
    [code |-> code, functions |-> <<>>, complexity |-> <<>>, issues |-> <<>>,
     suggestions |-> <<>>, quality_score |-> 0, threshold |-> 80,
     iteration |-> iteration]

\* state.dict(): a new dict of the fields, with new lists and dicts inside it.
dict(state) ==
    [code |-> state.code, functions |-> state.functions, complexity |-> state.complexity,
     issues |-> state.issues, suggestions |-> state.suggestions,
     quality_score |-> state.quality_score, threshold |-> state.threshold,
     iteration |-> state.iteration]

\* NodeConfig(name=..., tool=..., next_node=...), no branch fields given.
NodeConfig(name, tool, next_node) ==
    [name |-> name, tool |-> tool, next_node |-> next_node,
     condition_key |-> None, condition_op |-> None, condition_value |-> NoneNum,
     next_on_success |-> None, next_on_failure |-> None]

\* NodeConfig with the branch fields given.
BranchNodeConfig(name, tool, next_node, key, op, value, on_success, on_failure) ==
    [name |-> name, tool |-> tool, next_node |-> next_node,
     condition_key |-> key, condition_op |-> op, condition_value |-> value,
     next_on_success |-> on_success, next_on_failure |-> on_failure]

Graph(id, start_node, nodes) == [id |-> id, start_node |-> start_node, nodes |-> nodes]

ExecutionLogEntry(node, timestamp, state_snapshot) ==
    [node |-> node, timestamp |-> timestamp, state_snapshot |-> state_snapshot]

GraphRun(run_id, graph_id, current_node, state, log, finished) ==
    [run_id |-> run_id, graph_id |-> graph_id, current_node |-> current_node,
     state |-> state, log |-> log, finished |-> finished]

\* ------------------------------------------------- the code under review
\* A source text is known to the model by what ast.parse and pylint make of it.
\*   good  one function of one statement, nothing for pylint to report
\*   bad   one function of eleven statements, two pylint warnings
\*   deep  an expression nested so deeply that ast.parse gives up
Codes == {"good", "bad", "deep"}

\* ast.parse(code): "ok" or the exception it raises.  On the deeply nested text it
\* raises RecursionError, which `except SyntaxError` does not catch.
ParseOutcome(code) == IF code = "deep" THEN "RecursionError" ELSE "ok"

\* The FunctionDef nodes of the parsed text, as <<name, len(body)>>.
FunctionDefs(code) ==
    CASE code = "good" -> << <<"good", 1>> >>
      [] code = "bad"  -> << <<"bad", 11>> >>
      [] OTHER         -> <<>>

\* What pylint --disable=R,C reports, already parsed into line and message.
PylintIssues(code) ==
    CASE code = "bad"  -> [i \in 1..2 |-> [line |-> i + 2, message |-> "W0612"]]
      [] code = "deep" -> <<[line |-> 1, message |-> "F0002"]>>
      [] OTHER         -> <<>>

RECURSIVE SumValues(_)
SumValues(pairs) ==
    IF pairs = <<>> THEN 0 ELSE pairs[1][2] + SumValues(Tail(pairs))

\* ------------------------------------------------------------- the tools
\* Each tool is [raises |-> exception type or None, state |-> the returned state].
Returned(state) == [raises |-> None, state |-> state]
Raised(type, state) == [raises |-> type, state |-> state]

extract_functions(state) ==
    CASE ParseOutcome(state.code) = "SyntaxError" ->
            Returned([state EXCEPT !.functions = <<>>])
      [] ParseOutcome(state.code) = "ok" ->
            Returned([state EXCEPT !.functions =
                [i \in 1..Len(FunctionDefs(state.code)) |-> FunctionDefs(state.code)[i][1]]])
      [] OTHER -> Raised(ParseOutcome(state.code), state)

check_complexity(state) ==
    CASE ParseOutcome(state.code) = "SyntaxError" ->
            Returned([state EXCEPT !.complexity = <<>>])
      [] ParseOutcome(state.code) = "ok" ->
            Returned([state EXCEPT !.complexity = FunctionDefs(state.code)])
      [] OTHER -> Raised(ParseOutcome(state.code), state)

detect_basic_issues(state) ==
    Returned([state EXCEPT !.issues = PylintIssues(state.code)])

Suggestions(state) ==
    LET c == state.complexity
        fromComplexity ==
            SelectSeq([i \in 1..Len(c) |->
                          IF c[i][2] > 15 THEN <<"complex", c[i][1], c[i][2]>>
                          ELSE IF c[i][2] > 8 THEN <<"simplify", c[i][1], c[i][2]>>
                          ELSE <<>>],
                      LAMBDA s : s # <<>>)
        fromIssues ==
            [i \in 1..Len(state.issues) |->
                <<"resolve", state.issues[i].line, state.issues[i].message>>]
    IN  fromComplexity \o fromIssues

QualityScore(state) ==
    LET issue_penalty == Min(60, 12 * Len(state.issues))
        n == Len(state.complexity)
        \* (avg_complexity - 5) / 25.0, in hundredths
        over == IF n = 0 THEN 0 - 20 ELSE (4 * (SumValues(state.complexity) - 5 * n)) \div n
        complexity_penalty == Min(30, Max(0, over))
        raw_score == 100 - issue_penalty - complexity_penalty
    IN  Min(100, Max(0, raw_score))

suggest_improvements(state) ==
    Returned([state EXCEPT !.suggestions = Suggestions(state),
                           !.quality_score = QualityScore(state),
                           !.iteration = state.iteration + 1])

\* ---------------------------------------------------------- ToolRegistry
\* tool_registry after register_code_review_tools().
RegisteredTools ==
    {"extract_functions", "check_complexity", "detect_basic_issues", "suggest_improvements"}

\* A registry that hands out a tool for names it does not know.
ToolRegistry_get_lenient(name) ==
    [raises |-> None,
     tool |-> IF name \in RegisteredTools THEN name ELSE "extract_functions"]

\* ToolRegistry.get: the callable stored under the name, or the KeyError raised.
ToolRegistry_get(name) ==
    IF name \in RegisteredTools
    THEN [raises |-> None, tool |-> name]
    ELSE [raises |-> "KeyError", tool |-> None]

\* tool(run.state), for a callable of the registry.
ApplyTool(tool, state) ==
    CASE tool = "extract_functions"    -> extract_functions(state)
      [] tool = "check_complexity"     -> check_complexity(state)
      [] tool = "detect_basic_issues"  -> detect_basic_issues(state)
      [] tool = "suggest_improvements" -> suggest_improvements(state)

\* ------------------------------------------------- GraphEngine: branching
\* The fields of a CodeReviewState that hold a number.
NumericFields == {"quality_score", "threshold", "iteration"}
StateFields == {"code", "functions", "complexity", "issues", "suggestions"} \cup NumericFields
OrderOps == {">=", ">", "<=", "<"}

\* Compare with ">=" read as ">".
Compare_strict(op, value, target) ==
    CASE op = ">=" -> value > target
      [] op = ">"  -> value > target
      [] op = "<=" -> value <= target
      [] op = "<"  -> value < target
      [] op = "==" -> value = target
      [] OTHER     -> FALSE

\* value <op> target, for the five operators the engine knows; False otherwise.
Compare(op, value, target) ==
    CASE op = ">=" -> value >= target
      [] op = ">"  -> value > target
      [] op = "<=" -> value <= target
      [] op = "<"  -> value < target
      [] op = "==" -> value = target
      [] OTHER     -> FALSE

\* The exception _decide_next_node raises, or None: getattr of a name the state
\* does not have, or an ordering comparison of a non-number with a float.
DecideRaises(node_cfg, state) ==
    IF Falsy(node_cfg.condition_key) THEN None
    ELSE IF node_cfg.condition_key \notin StateFields THEN "AttributeError"
    ELSE IF node_cfg.condition_op = None \/ node_cfg.condition_value = NoneNum THEN None
    ELSE IF node_cfg.condition_key \notin NumericFields /\ node_cfg.condition_op \in OrderOps
         THEN "TypeError"
    ELSE None

\* GraphEngine._decide_next_node, where it raises nothing.
_decide_next_node(node_cfg, state) ==
    IF Falsy(node_cfg.condition_key) THEN node_cfg.next_node
    ELSE LET value == state[node_cfg.condition_key]
             target == node_cfg.condition_value
             op == node_cfg.condition_op
             is_ok == IF node_cfg.condition_key \in NumericFields
                      THEN Compare(op, value, target)
                      ELSE FALSE      \* a str or list never equals a float
         IN  IF op = None \/ target = NoneNum THEN node_cfg.next_node
             ELSE IF is_ok THEN node_cfg.next_on_success
             ELSE IF ~Falsy(node_cfg.next_on_failure) THEN node_cfg.next_on_failure
             ELSE node_cfg.next_node

\* ------------------------------------------------------ request validation
\* condition_op: Optional[Literal[">=", ">", "<=", "<", "=="]]
ConditionOps == {">=", ">", "<=", "<", "=="}

\* A NodeConfig that takes any string for condition_op.
ValidNodeConfig_any(cfg) == TRUE

\* What pydantic accepts as a NodeConfig: condition_op is None or one of the Literal's
\* values.
ValidNodeConfig(cfg) == cfg.condition_op \in ConditionOps \cup {None}

\* The nodes of a Graph body that fail validation (nodes: Dict[str, NodeConfig]).
InvalidNodes(g) == {k \in DOMAIN g.nodes : ~ValidNodeConfig(g.nodes[k])}

\* ---------------------------------------------------------------- graphs
\* The default graph with the suggest node sent back to extract on failure.
DefaultGraph_looping ==
    Graph("code_review_default", "extract",
          [k \in {"extract", "complexity", "issues", "suggest"} |->
              CASE k = "extract"    -> NodeConfig("extract", "extract_functions", "complexity")
                [] k = "complexity" -> NodeConfig("complexity", "check_complexity", "issues")
                [] k = "issues"     -> NodeConfig("issues", "detect_basic_issues", "suggest")
                [] k = "suggest"    -> BranchNodeConfig("suggest", "suggest_improvements", None,
                                           "quality_score", ">=", 80, None, "extract")])

\* create_default_code_review_graph()
DefaultGraph ==
    Graph("code_review_default", "extract",
          [k \in {"extract", "complexity", "issues", "suggest"} |->
              CASE k = "extract"    -> NodeConfig("extract", "extract_functions", "complexity")
                [] k = "complexity" -> NodeConfig("complexity", "check_complexity", "issues")
                [] k = "issues"     -> NodeConfig("issues", "detect_basic_issues", "suggest")
                [] k = "suggest"    -> BranchNodeConfig("suggest", "suggest_improvements", None,
                                           "quality_score", ">=", 80, None, None)])

\* The graphs clients post to /graph/create in this model.
SelfLoopPlain ==        \* one node, an edge back to itself, a tool that leaves iteration alone
    Graph("self_loop_plain", "a",
          [k \in {"a"} |-> NodeConfig("a", "extract_functions", "a")])

SelfLoopCounting ==     \* one node, an edge back to itself, the tool that counts iterations
    Graph("self_loop_counting", "a",
          [k \in {"a"} |-> NodeConfig("a", "suggest_improvements", "a")])

Linear ==               \* two nodes in a row; the second one's name is not its key
    Graph("linear", "a",
          [k \in {"a", "b"} |->
              IF k = "a" THEN NodeConfig("a", "suggest_improvements", "b")
                         ELSE NodeConfig("second", "check_complexity", None)])

BrokenChain ==          \* the second node names a tool nobody registered
    Graph("broken_chain", "a",
          [k \in {"a", "b"} |->
              IF k = "a" THEN NodeConfig("a", "extract_functions", "b")
                         ELSE NodeConfig("b", "not_registered", None)])

Malformed ==            \* condition_key without condition_op, then an edge to a missing node
    Graph("malformed", "a",
          [k \in {"a", "b"} |->
              IF k = "a" THEN BranchNodeConfig("a", "suggest_improvements", "b",
                                  "quality_score", None, 80, None, None)
                         ELSE NodeConfig("b", "check_complexity", "ghost")])

ReviewLoop ==           \* extract -> measure -> detect -> score, back to extract on failure
    Graph("review_loop", "extract",
          [k \in {"extract", "measure", "detect", "score"} |->
              CASE k = "extract" -> NodeConfig("extract", "extract_functions", "measure")
                [] k = "measure" -> NodeConfig("measure", "check_complexity", "detect")
                [] k = "detect"  -> NodeConfig("detect", "detect_basic_issues", "score")
                [] k = "score"   -> BranchNodeConfig("score", "suggest_improvements", None,
                                        "quality_score", ">=", 80, None, "extract")])

LinearSwapped ==        \* a second definition for the id of Linear: starts at b, goes on to a
    Graph("linear", "b",
          [k \in {"a", "b"} |->
              IF k = "a" THEN NodeConfig("a", "check_complexity", None)
                         ELSE NodeConfig("b", "extract_functions", "a")])

UnknownOp ==            \* a condition_op that is none of the five
    Graph("unknown_op", "a",
          [k \in {"a"} |-> BranchNodeConfig("a", "suggest_improvements", None,
                                "quality_score", "!=", 80, "a", None)])

ClientGraphs ==
    {SelfLoopPlain, SelfLoopCounting, Linear, LinearSwapped, BrokenChain, Malformed,
     ReviewLoop, UnknownOp}

UnknownGraphId == "no_such_graph"

\* The states a /graph/run request carries.
InitialStates ==
    {CodeReviewState(c, 0) : c \in Codes} \cup {CodeReviewState("good", i) : i \in {1, 2}}

\* GraphEngine(graph_store, run_store, max_iterations=...)
MaxIterationsChoices == 1..MaxN

\* A run is followed for as many log entries as the longest run that ends can have
\* (the four nodes of ReviewLoop, MaxN times), and one more.
LogCap == 4 * MaxN + 1

\* ----------------------------------------------------------------- state
VARIABLES
    max_iterations,  \* GraphEngine.max_iterations
    graphs,          \* GraphStore._graphs: graph id -> Graph
    runs,            \* RunStore._runs: run id -> the GraphRun object (its index in heap)
    heap,            \* the GraphRun objects ever made
    clock,           \* what RunStore.now() returned last
    pc,              \* where the /graph/run request being served stands
    graph_id,        \* run_graph's arguments
    initial_state,
    graph,           \* run_graph's locals
    run,
    exc,             \* the exception that left run_graph
    response,        \* the last HTTP response of /graph/run
    n_requests,      \* HTTP requests received, and calls made from outside, so far
    created,         \* the last HTTP response of /graph/create
    node_cfg_in,     \* a call of _decide_next_node on its own: arguments and result
    state_in,
    next_out,
    store_out,       \* a call of RunStore.create on its own: its result
    state_response,  \* the last HTTP response of /graph/state/{run_id}
    websocket,       \* where websocket_endpoint stands for the one connection
    current_iteration,   \* websocket_endpoint's local of that name
    sent             \* what websocket.send_json was last called with

engineVars == <<max_iterations, graphs, runs, heap, clock, pc, graph_id, initial_state,
                graph, run, exc, response, n_requests, created>>
decideVars == <<node_cfg_in, state_in, next_out>>
storeVars == <<store_out, state_response>>
sessionVars == <<websocket, current_iteration, sent>>
vars == <<engineVars, decideVars, storeVars, sessionVars>>

NoRun == 0
NoExc == [type |-> None, msg |-> <<>>]
NoResponse == [status |-> 0]
NoState == CodeReviewState(None, 0)
NoMessage == [nothing |-> TRUE]
Pending == <<"pending">>

\* ------------------------------------------------------------ GraphStore
NoGraph == Graph(None, None, <<>>)

\* A store that answers an unknown id with an empty graph.
GraphStore_get_lenient(store, id) ==
    [raises |-> None, graph |-> IF id \in DOMAIN store THEN store[id] ELSE NoGraph]

\* GraphStore.get: the Graph stored under the id, or the KeyError raised.
GraphStore_get(store, id) ==
    IF id \in DOMAIN store
    THEN [raises |-> None, graph |-> store[id]]
    ELSE [raises |-> "KeyError", graph |-> NoGraph]

\* GraphStore.save
GraphStore_save(store, g) ==
    [id \in DOMAIN store \cup {g.id} |-> IF id = g.id THEN g ELSE store[id]]

\* -------------------------------------------------------------- RunStore
\* An id generator that gives every run the same id.
FreshRunId_reused(store) == 1

\* str(uuid.uuid4()): an id no run has.
FreshRunId(store) == Cardinality(DOMAIN store) + 1

\* A GraphRun that takes over the state object of the run made before it.
NewRun_shared(run_id, id, g, state) ==
    GraphRun(run_id, id, g.start_node,
             IF Len(heap) > 0 THEN heap[Len(heap)].state ELSE state, <<>>, FALSE)

\* The GraphRun RunStore.create builds.
NewRun(run_id, id, g, state) == GraphRun(run_id, id, g.start_node, state, <<>>, FALSE)

\* A store with one slot: every id comes to name the object stored last.
RunStore_put_shared(store, run_id, obj) ==
    [id \in DOMAIN store \cup {run_id} |-> obj]

\* self._runs[run_id] = run: the store keeps the object it is given, not a copy.
RunStore_put(store, run_id, obj) ==
    [id \in DOMAIN store \cup {run_id} |-> IF id = run_id THEN obj ELSE store[id]]

\* A get that answers with the run made last, whatever the id.
RunStore_get_latest(run_id) == heap[Len(heap)]

\* RunStore.get, where the id is known: the GraphRun as it is now.
RunStore_get(run_id) == heap[runs[run_id]]

\* ----------------------------------------------------- GraphEngine: loop
WhileCondition(r) == r.current_node # None /\ ~r.finished

\* The guard with ">" for ">=".
GuardTripped_late(state, limit) == state.iteration > limit

GuardTripped(state, limit) == state.iteration >= limit

\* A guard that breaks out of the loop and leaves finished as it is.
RunAfterGuard_unfinished(r) == r

\* run.finished = True; break
RunAfterGuard(r) == [r EXCEPT !.finished = TRUE]

\* The log entry named after the key the node was found under.
RunAfterTool_key(r, node_cfg, new_state, now) ==
    [r EXCEPT !.state = new_state,
              !.log = Append(r.log, ExecutionLogEntry(r.current_node, now, dict(new_state)))]

\* run.state = new_state; run.log.append(log_entry), the entry holding
\* run.state.dict()
RunAfterTool(r, node_cfg, new_state, now) ==
    [r EXCEPT !.state = new_state,
              !.log = Append(r.log, ExecutionLogEntry(node_cfg.name, now, dict(new_state)))]

\* run.current_node = next_node; if next_node is None: run.finished = True
RunAfterDecision(r, next_node) ==
    [r EXCEPT !.current_node = next_node,
              !.finished = IF next_node = None THEN TRUE ELSE r.finished]

\* The node looked up in whatever the Graph Store holds under the graph's id now.
ResolveNode_refreshed(g, key) ==
    IF g.id \in DOMAIN graphs /\ key \in DOMAIN graphs[g.id].nodes
    THEN graphs[g.id].nodes[key]
    ELSE g.nodes[key]

\* node_cfg = graph.nodes[run.current_node]: graph is run_graph's local.
ResolveNode(g, key) == g.nodes[key]

Raise(type, msg) ==
    /\ pc' = "raised"
    /\ exc' = [type |-> type, msg |-> msg]

\* --------------------------------------------------------------- actions
\* POST /graph/create: the body is validated as a Graph (a body that fails is
\* answered 422 with the places of the errors, and create_graph is not called),
\* then graph_store.save(graph).  Served by a worker thread, so it may fall between
\* any two steps of a run.
CreateGraph(g) ==
    /\ n_requests < MaxRequests
    /\ IF InvalidNodes(g) = {}
       THEN /\ graphs' = GraphStore_save(graphs, g)
            /\ created' = [status |-> 200, graph_id |-> g.id]
       ELSE /\ graphs' = graphs
            /\ created' = [status |-> 422, detail |-> InvalidNodes(g)]
    /\ n_requests' = n_requests + 1
    /\ UNCHANGED <<max_iterations, runs, heap, clock, pc, graph_id, initial_state,
                   graph, run, exc, response>>
    /\ UNCHANGED <<decideVars, storeVars, sessionVars>>

\* POST /graph/run arrives: engine.run_graph(request.graph_id, request.state) is called.
StartRun(id, state) ==
    /\ pc = "idle"
    /\ n_requests < MaxRequests
    /\ pc' = "get_graph"
    /\ graph_id' = id
    /\ initial_state' = state
    /\ response' = NoResponse
    /\ n_requests' = n_requests + 1
    /\ UNCHANGED <<max_iterations, graphs, runs, heap, clock, graph, run, exc, created>>
    /\ UNCHANGED <<decideVars, storeVars, sessionVars>>

\* graph = self.graph_store.get(graph_id)
GetGraph ==
    /\ pc = "get_graph"
    /\ LET got == GraphStore_get(graphs, graph_id) IN
       IF got.raises = None
       THEN /\ graph' = got.graph
            /\ pc' = "create"
            /\ UNCHANGED exc
       ELSE /\ Raise(got.raises, <<"Graph not found", graph_id>>)
            /\ UNCHANGED graph
    /\ UNCHANGED <<max_iterations, graphs, runs, heap, clock, graph_id, initial_state,
                   run, response, n_requests, created>>
    /\ UNCHANGED <<decideVars, storeVars, sessionVars>>

\* run = self.run_store.create(graph_id, initial_state)
CreateRun ==
    /\ pc = "create"
    /\ LET got == GraphStore_get(graphs, graph_id)     \* RunStore.create looks it up again
           run_id == FreshRunId(runs)
           obj == Len(heap) + 1
       IN  IF got.raises = None
           THEN /\ heap' = Append(heap, NewRun(run_id, graph_id, got.graph, initial_state))
                /\ runs' = RunStore_put(runs, run_id, obj)
                /\ run' = obj
                /\ pc' = "loop"
                /\ UNCHANGED exc
           ELSE /\ Raise(got.raises, <<"Graph not found", graph_id>>)
                /\ UNCHANGED <<heap, runs, run>>
    /\ UNCHANGED <<max_iterations, graphs, clock, graph_id, initial_state, graph,
                   response, n_requests, created>>
    /\ UNCHANGED <<decideVars, storeVars, sessionVars>>

\* One turn of `while run.current_node is not None and not run.finished`.
LoopIteration ==
    /\ pc = "loop"
    /\ LET r == heap[run] IN
       IF ~WhileCondition(r) THEN
            /\ pc' = "update"
            /\ UNCHANGED <<heap, clock, exc>>
       ELSE IF GuardTripped(r.state, max_iterations) THEN
            /\ heap' = [heap EXCEPT ![run] = RunAfterGuard(r)]
            /\ pc' = "update"
            /\ UNCHANGED <<clock, exc>>
       ELSE IF r.current_node \notin DOMAIN graph.nodes THEN
            /\ Raise("KeyError", <<r.current_node>>)
            /\ UNCHANGED <<heap, clock>>
       ELSE LET node_cfg == ResolveNode(graph, r.current_node) IN
            IF ToolRegistry_get(node_cfg.tool).raises # None THEN
                 /\ Raise(ToolRegistry_get(node_cfg.tool).raises,
                          <<"Tool not registered", node_cfg.tool>>)
                 /\ UNCHANGED <<heap, clock>>
            ELSE LET out == ApplyTool(ToolRegistry_get(node_cfg.tool).tool, r.state) IN
                 IF out.raises # None THEN
                      /\ Raise(out.raises, <<>>)
                      /\ heap' = [heap EXCEPT ![run].state = out.state]
                      /\ UNCHANGED clock
                 ELSE /\ Len(r.log) < LogCap
                      /\ clock' = clock + 1
                      /\ LET logged == RunAfterTool(r, node_cfg, out.state, clock + 1)
                             failure == DecideRaises(node_cfg, out.state)
                         IN  IF failure # None
                             THEN /\ heap' = [heap EXCEPT ![run] = logged]
                                  /\ Raise(failure, <<node_cfg.condition_key>>)
                             ELSE /\ heap' = [heap EXCEPT ![run] =
                                        RunAfterDecision(logged, _decide_next_node(node_cfg, out.state))]
                                  /\ pc' = IF _decide_next_node(node_cfg, out.state) = None
                                           THEN "update" ELSE "loop"
                                  /\ UNCHANGED exc
    /\ UNCHANGED <<max_iterations, graphs, runs, graph_id, initial_state, graph, run,
                   response, n_requests, created>>
    /\ UNCHANGED <<decideVars, storeVars, sessionVars>>

\* An update that writes the graph of the run back with the run.
UpdateAndReturn_saving ==
    /\ pc = "update"
    /\ runs' = RunStore_put(runs, heap[run].run_id, run)
    /\ graphs' = GraphStore_save(graphs, graph)
    /\ pc' = "returned"
    /\ UNCHANGED <<max_iterations, heap, clock, graph_id, initial_state, graph,
                   run, exc, response, n_requests, created>>
    /\ UNCHANGED <<decideVars, storeVars, sessionVars>>

\* self.run_store.update(run); return run
UpdateAndReturn ==
    /\ pc = "update"
    /\ runs' = RunStore_put(runs, heap[run].run_id, run)
    /\ pc' = "returned"
    /\ UNCHANGED <<max_iterations, graphs, heap, clock, graph_id, initial_state, graph,
                   run, exc, response, n_requests, created>>
    /\ UNCHANGED <<decideVars, storeVars, sessionVars>>

\* The HTTP status main.run_graph answers an exception with: KeyError is caught and
\* turned into 404, anything else leaves the endpoint and becomes 500.
StatusOf(e) == IF e.type = "KeyError" THEN 404 ELSE 500

\* GraphRunResponse(run_id=run.run_id, ..., final_state=run.state, log=run.log)
GraphRunResponse(r) ==
    [status |-> 200, run_id |-> r.run_id, graph_id |-> r.graph_id,
     finished |-> r.finished, current_node |-> r.current_node,
     final_state |-> r.state, log |-> r.log]

\* main.run_graph after engine.run_graph returned or raised.
Respond ==
    /\ pc \in {"returned", "raised"}
    /\ response' =
          IF pc = "returned"
          THEN GraphRunResponse(heap[run])
          ELSE [status |-> StatusOf(exc), detail |-> exc.msg]
    /\ pc' = "idle"
    /\ graph_id' = None
    /\ initial_state' = NoState
    /\ graph' = NoGraph
    /\ run' = NoRun
    /\ exc' = NoExc
    /\ UNCHANGED <<max_iterations, graphs, runs, heap, clock, n_requests, created>>
    /\ UNCHANGED <<decideVars, storeVars, sessionVars>>

\* ------------------------------------------- the Run Store, from outside
UnknownRunId == 0

\* GET /graph/state/{run_id}: run_store.get(run_id), KeyError answered 404.  Served
\* by a worker thread, so it may fall between any two steps of a run.
get_graph_state(run_id) ==
    /\ n_requests < MaxRequests
    /\ state_response' =
          IF run_id \in DOMAIN runs
          THEN GraphRunResponse(RunStore_get(run_id))
          ELSE [status |-> 404, detail |-> <<"Run not found", run_id>>]
    /\ n_requests' = n_requests + 1
    /\ UNCHANGED <<max_iterations, graphs, runs, heap, clock, pc, graph_id, initial_state,
                   graph, run, exc, response, created>>
    /\ UNCHANGED <<decideVars, store_out, sessionVars>>

\* run_store.create(graph_id, state), called on its own.
RunStore_create(id, state) ==
    /\ n_requests < MaxRequests
    /\ LET got == GraphStore_get(graphs, id)
           run_id == FreshRunId(runs)
           obj == Len(heap) + 1
       IN  IF got.raises = None
           THEN /\ heap' = Append(heap, NewRun(run_id, id, got.graph, state))
                /\ runs' = RunStore_put(runs, run_id, obj)
                /\ store_out' = <<"return", obj>>
           ELSE /\ store_out' = <<"raise", got.raises>>
                /\ UNCHANGED <<heap, runs>>
    /\ n_requests' = n_requests + 1
    /\ UNCHANGED <<max_iterations, graphs, clock, pc, graph_id, initial_state,
                   graph, run, exc, response, created>>
    /\ UNCHANGED <<decideVars, state_response, sessionVars>>

\* ---------------------------------------------------------- specification
EngineInit ==
    /\ graphs = [id \in {DefaultGraph.id} |-> DefaultGraph]
    /\ runs = <<>>
    /\ heap = <<>>
    /\ clock = 0
    /\ pc = "idle"
    /\ graph_id = None
    /\ initial_state = NoState
    /\ graph = NoGraph
    /\ run = NoRun
    /\ exc = NoExc
    /\ response = NoResponse
    /\ n_requests = 0
    /\ created = NoResponse

StoreInit ==
    /\ store_out = Pending
    /\ state_response = NoResponse

SessionInit ==
    /\ websocket = "closed"
    /\ current_iteration = 0
    /\ sent = NoMessage

Init ==
    /\ max_iterations \in MaxIterationsChoices
    /\ EngineInit
    /\ StoreInit
    /\ SessionInit
    /\ node_cfg_in = NodeConfig(None, None, None)
    /\ state_in = NoState
    /\ next_out = Pending

Next ==
    \/ \E g \in ClientGraphs : CreateGraph(g)
    \/ \E id \in DOMAIN graphs \cup {UnknownGraphId}, s \in InitialStates : StartRun(id, s)
    \/ GetGraph
    \/ CreateRun
    \/ LoopIteration
    \/ UpdateAndReturn
    \/ Respond

Spec == Init /\ [][Next]_vars

\* The service as the Run Store's callers meet it: /graph/state beside /graph/run
\* and /graph/create, and RunStore.create also called on its own.  The graphs posted
\* are the two definitions of one id; the states are one that runs through and one
\* on which the first tool raises.
StoreGraphs == {Linear, LinearSwapped}
StoreStates == {CodeReviewState("good", 0), CodeReviewState("deep", 0)}

NextStore ==
    \/ \E g \in StoreGraphs : CreateGraph(g)
    \/ \E id \in DOMAIN graphs \cup {UnknownGraphId}, s \in StoreStates : StartRun(id, s)
    \/ GetGraph
    \/ CreateRun
    \/ LoopIteration
    \/ UpdateAndReturn
    \/ Respond
    \/ \E rid \in DOMAIN runs \cup {UnknownRunId} : get_graph_state(rid)
    \/ \E id \in DOMAIN graphs \cup {UnknownGraphId}, s \in StoreStates :
          RunStore_create(id, s)

SpecStore == Init /\ [][NextStore]_vars

\* ------------------------------------- _decide_next_node, called on its own
DecideKeys == {None, "", "quality_score", "iteration", "code", "no_such_field"}
DecideOps == {None, ">=", ">", "<=", "<", "=="}
DecideValues == {NoneNum, 80}

DecideNodeConfigs ==
    {BranchNodeConfig("n", "extract_functions", nn, k, op, v, s, f) :
        nn \in {None, "next"}, k \in DecideKeys, op \in DecideOps, v \in DecideValues,
        s \in {None, "yes"}, f \in {None, "", "no"}}

DecideStates ==
    {[CodeReviewState("good", i) EXCEPT !.quality_score = q] : i \in {0, 80}, q \in {79, 80, 81}}

InitDecide ==
    /\ max_iterations = MaxN
    /\ EngineInit
    /\ StoreInit
    /\ SessionInit
    /\ node_cfg_in \in DecideNodeConfigs
    /\ state_in \in DecideStates
    /\ next_out = Pending

\* next_node = self._decide_next_node(node_cfg, run.state)
Decide ==
    /\ next_out = Pending
    /\ next_out' = IF DecideRaises(node_cfg_in, state_in) # None
                   THEN <<"raise", DecideRaises(node_cfg_in, state_in)>>
                   ELSE <<"return", _decide_next_node(node_cfg_in, state_in)>>
    /\ UNCHANGED <<node_cfg_in, state_in>>
    /\ UNCHANGED <<engineVars, storeVars, sessionVars>>

SpecDecide == InitDecide /\ [][Decide]_vars

\* ------------------------------------------------- the websocket session
\* What a client sends: a JSON object with or without "code" (None: the key is
\* missing) and with a threshold, in hundredths (0.8 is also the default).
Thresholds == {40, 80}
Messages == [code : Codes \cup {None, ""}, threshold : Thresholds]

\* if not code_input
NoCode_missing(data) == data.code = None
NoCode(data) == Falsy(data.code)

\* await websocket.accept(); graph_id = "code_review_default"; current_iteration = 0
WsAccept ==
    /\ websocket = "closed"
    /\ pc = "idle"
    /\ n_requests < MaxRequests
    /\ websocket' = "receive"
    /\ current_iteration' = 0
    /\ UNCHANGED sent
    /\ UNCHANGED <<engineVars, decideVars, storeVars>>

\* data = await websocket.receive_json(), up to the call of engine.run_graph: a
\* message without code is answered at once and the loop goes round.
WsReceive(data) ==
    /\ websocket = "receive"
    /\ pc = "idle"
    /\ n_requests < MaxRequests
    /\ n_requests' = n_requests + 1
    /\ IF NoCode(data)
       THEN /\ sent' = [error |-> "No code provided"]
            /\ UNCHANGED <<websocket, pc, graph_id, initial_state>>
       ELSE /\ websocket' = "run_graph"
            /\ graph_id' = "code_review_default"
            /\ initial_state' =
                  [CodeReviewState(data.code, current_iteration)
                      EXCEPT !.threshold = data.threshold]
            /\ pc' = "get_graph"
            /\ UNCHANGED sent
    /\ UNCHANGED <<max_iterations, graphs, runs, heap, clock, graph, run, exc, response,
                   created, current_iteration>>
    /\ UNCHANGED <<decideVars, storeVars>>

\* The reply built from the returned run.
WsResponse(r) ==
    LET final_state == r.state
        accepted == final_state.quality_score >= final_state.threshold
    IN  [quality_score |-> final_state.quality_score,
         threshold |-> final_state.threshold,
         issues |-> final_state.issues,
         suggestions |-> final_state.suggestions,
         complexity |-> final_state.complexity,
         functions |-> final_state.functions,
         node |-> IF Falsy(r.current_node) THEN "finished" ELSE r.current_node,
         iteration |-> final_state.iteration,
         accepted |-> accepted,
         message |-> <<IF accepted
                       THEN "Code accepted! Quality score meets threshold."
                       ELSE "Quality score too low. Rejected. Looping...",
                       final_state.iteration>>]

\* run = await engine.run_graph(...) has returned: current_iteration =
\* final_state.iteration; await websocket.send_json(response); back to receive.
WsSend ==
    /\ websocket = "run_graph"
    /\ pc = "returned"
    /\ current_iteration' = heap[run].state.iteration
    /\ sent' = WsResponse(heap[run])
    /\ websocket' = "receive"
    /\ pc' = "idle"
    /\ graph_id' = None
    /\ initial_state' = NoState
    /\ graph' = NoGraph
    /\ run' = NoRun
    /\ UNCHANGED <<max_iterations, graphs, runs, heap, clock, exc, response, n_requests,
                   created>>
    /\ UNCHANGED <<decideVars, storeVars>>

\* engine.run_graph raised: only WebSocketDisconnect is caught, so the exception
\* leaves websocket_endpoint and the connection is closed with nothing sent.
WsError ==
    /\ websocket = "run_graph"
    /\ pc = "raised"
    /\ websocket' = "closed"
    /\ pc' = "idle"
    /\ graph_id' = None
    /\ initial_state' = NoState
    /\ graph' = NoGraph
    /\ run' = NoRun
    /\ exc' = NoExc
    /\ UNCHANGED <<max_iterations, graphs, runs, heap, clock, response, n_requests,
                   created, current_iteration, sent>>
    /\ UNCHANGED <<decideVars, storeVars>>

\* except WebSocketDisconnect: the client went away while the session waited.
WsDisconnect ==
    /\ websocket = "receive"
    /\ websocket' = "closed"
    /\ UNCHANGED <<current_iteration, sent>>
    /\ UNCHANGED <<engineVars, decideVars, storeVars>>

NextSession ==
    \/ WsAccept
    \/ \E data \in Messages : WsReceive(data)
    \/ GetGraph
    \/ CreateRun
    \/ LoopIteration
    \/ UpdateAndReturn
    \/ WsSend
    \/ WsError
    \/ WsDisconnect

SpecSession == Init /\ [][NextSession]_vars

\* ================================================================ claims
Serving == run # NoRun          \* run_graph holds a GraphRun
Run == heap[run]                \* the GraphRun run_graph works on
Moved == <<pc, heap, exc>>' # <<pc, heap, exc>>     \* run_graph took a step

\* C1: run_graph terminates for every stored graph and every initial state.  Tools
\* and the branch rule are functions of node and state, so a run that logs the same
\* node with the same state a second time goes round for ever: a run that terminates
\* never does.
C1_RunTerminates ==
    \A o \in 1..Len(heap) : \A i, j \in 1..Len(heap[o].log) :
        i < j => ~(/\ heap[o].log[i].node = heap[o].log[j].node
                   /\ heap[o].log[i].state_snapshot = heap[o].log[j].state_snapshot)

\* A graph whose single node has an edge back to itself.
SelfLoop(g) ==
    /\ DOMAIN g.nodes = {g.start_node}
    /\ g.nodes[g.start_node].next_node = g.start_node
    /\ g.nodes[g.start_node].condition_key = None

\* C2: on a self-loop graph, run_graph with max_iterations = N never logs more than N
\* entries and returns a finished Run with exactly N of them (stated for requests
\* whose state starts at iteration 0).
C2_SelfLoopLogsExactlyN ==
    (Serving /\ SelfLoop(graph) /\ initial_state.iteration = 0) =>
        /\ Len(Run.log) <= max_iterations
        /\ pc = "returned" => (Run.finished /\ Len(Run.log) = max_iterations)

\* The loop is entered with the iteration limit reached.
AtGuard ==
    /\ pc = "loop"
    /\ Run.current_node # None
    /\ ~Run.finished
    /\ Run.state.iteration >= max_iterations

\* C3: the guard is checked before the node runs.  A turn of the loop that starts
\* with state.iteration >= max_iterations applies no tool, logs nothing, sets
\* finished, keeps current_node (not None) and raises nothing; the run is then
\* written back under its id and returned as it is.
C3_GuardBeforeNode ==
    [][ /\ (AtGuard /\ Moved) =>
            /\ pc' = "update"
            /\ heap' = [heap EXCEPT ![run].finished = TRUE]
            /\ heap'[run].current_node # None
            /\ exc' = NoExc
            /\ clock' = clock
        /\ (pc = "update" /\ pc' # pc) =>
            /\ pc' = "returned"
            /\ heap' = heap
            /\ run' = run
            /\ runs'[Run.run_id] = run
            /\ exc' = NoExc ]_vars

\* The guard stopped a run that had executed a node, and the run was returned.
C3_Witness ==
    /\ pc = "returned"
    /\ Run.finished
    /\ Run.current_node # None
    /\ Run.state.iteration >= max_iterations
    /\ Len(Run.log) > 0
    /\ runs[Run.run_id] = run

\* value <op> target as the claim reads the five operators.
Holds(op, value, target) ==
    \/ op = ">=" /\ (value > target \/ value = target)
    \/ op = ">"  /\ value > target
    \/ op = "<=" /\ (value < target \/ value = target)
    \/ op = "<"  /\ value < target
    \/ op = "==" /\ value = target

\* C4: _decide_next_node returns next_node when the node has no condition field;
\* with a condition on a numeric field it returns next_on_success when the
\* comparison holds (None included) and otherwise next_on_failure if set, else
\* next_node.  With ">=" and 0.8: 0.8 and 0.81 go to next_on_success, 0.79 does not.
C4_DecideNextNode ==
    next_out[1] = "return" =>
        LET cfg == node_cfg_in
            next == next_out[2]
            fallback == IF cfg.next_on_failure \in {None, ""}
                        THEN cfg.next_node ELSE cfg.next_on_failure
        IN  /\ cfg.condition_key \in {None, ""} => next = cfg.next_node
            /\ ( /\ cfg.condition_key \in NumericFields
                 /\ cfg.condition_op \in {">=", ">", "<=", "<", "=="}
                 /\ cfg.condition_value # NoneNum ) =>
                    next = IF Holds(cfg.condition_op, state_in[cfg.condition_key],
                                    cfg.condition_value)
                           THEN cfg.next_on_success ELSE fallback
            /\ ( /\ cfg.condition_key = "quality_score"
                 /\ cfg.condition_op = ">="
                 /\ cfg.condition_value = 80 ) =>
                    /\ state_in.quality_score \in {80, 81} => next = cfg.next_on_success
                    /\ state_in.quality_score = 79 => next = fallback

\* quality_score 0.8 met ">= 0.8" and was routed to a next_on_success that differs
\* from the failure route.
C4_Witness ==
    /\ next_out = <<"return", "yes">>
    /\ node_cfg_in.condition_key = "quality_score"
    /\ node_cfg_in.condition_op = ">="
    /\ node_cfg_in.condition_value = 80
    /\ state_in.quality_score = 80
    /\ node_cfg_in.next_on_failure = "no"

\* No node of the graph has a branch condition.
Unconditional(g) == \A k \in DOMAIN g.nodes : g.nodes[k].condition_key = None

\* The keys met by following next_node from key n, up to the first None (or the
\* first key the graph does not have), at most `fuel` of them.
RECURSIVE NextNodeChain(_, _, _)
NextNodeChain(g, n, fuel) ==
    IF n = None \/ n \notin DOMAIN g.nodes \/ fuel = 0 THEN <<>>
    ELSE <<n>> \o NextNodeChain(g, g.nodes[n].next_node, fuel - 1)

ChainOf(g) == NextNodeChain(g, g.start_node, LogCap + 1)
NamesOf(g, keys) == [i \in 1..Len(keys) |-> g.nodes[keys[i]].name]
LoggedNodes(r) == [i \in 1..Len(r.log) |-> r.log[i].node]
Distinct(keys) == Cardinality({keys[i] : i \in 1..Len(keys)})

\* C5: for a graph without branch conditions, the node names in the returned Run's
\* log are the next_node chain from start_node to the first None, and the log is as
\* long as the number of distinct nodes visited.
C5_LogIsNextNodeChain ==
    (pc = "returned" /\ Unconditional(graph)) =>
        /\ LoggedNodes(Run) = NamesOf(graph, ChainOf(graph))
        /\ Len(Run.log) = Distinct(ChainOf(graph))

\* C6: run_graph with a graph id the Graph Store does not have fails with the
\* not-found error (KeyError, answered 404) and the Run Store is left as it was: no
\* GraphRun is made and none is stored.
C6_UnknownGraphNoRun ==
    [][ /\ (pc = "get_graph" /\ graph_id \notin DOMAIN graphs /\ pc' # pc) =>
            /\ pc' = "raised"
            /\ exc'.type = "KeyError"
            /\ runs' = runs
            /\ heap' = heap
            /\ run' = NoRun
        /\ (pc = "raised" /\ run = NoRun /\ pc' # pc) =>
            /\ pc' = "idle"
            /\ response'.status = 404
            /\ runs' = runs
            /\ heap' = heap ]_vars

\* An unknown graph id was refused while the Run Store held a run, and it still
\* holds just that run.
C6_Witness ==
    /\ pc = "raised"
    /\ graph_id = UnknownGraphId
    /\ exc.type = "KeyError"
    /\ run = NoRun
    /\ DOMAIN runs = {1}
    /\ Len(heap) = 1

\* The node the loop stands at cannot be run: its tool is not registered, or the
\* tool raises on the state.
ToolFails ==
    /\ pc = "loop"
    /\ Run.current_node \in DOMAIN graph.nodes
    /\ ~Run.finished
    /\ Run.state.iteration < max_iterations
    /\ LET tool == graph.nodes[Run.current_node].tool
       IN  \/ tool \notin RegisteredTools
           \/ tool \in {"extract_functions", "check_complexity"}
              /\ Run.state.code = "deep"

\* C7: when the tool of a step is not registered or raises, run_graph stops there
\* with the error: nothing is logged for the node, current_node and finished stay
\* as they were (finished false), RunStore.update is not called, and the only thing
\* that follows is the error reaching the caller (no second try).
C7_FailureAborts ==
    [][ /\ (ToolFails /\ Moved) =>
            /\ pc' = "raised"
            /\ exc'.type # None
            /\ heap'[run].log = Run.log
            /\ heap'[run].current_node = Run.current_node
            /\ ~heap'[run].finished
            /\ runs' = runs
            /\ clock' = clock
        /\ (pc = "raised" /\ pc' # pc) =>
            /\ pc' = "idle"
            /\ response'.status \in {404, 500}
            /\ response'.status = 404 <=> exc.type = "KeyError"
            /\ heap' = heap
            /\ runs' = runs ]_vars

\* The second node's tool was not registered: the run stopped after one entry.
C7_Witness ==
    /\ pc = "raised"
    /\ Serving
    /\ exc.msg = <<"Tool not registered", "not_registered">>
    /\ Len(Run.log) = 1
    /\ ~Run.finished

\* C8: the Run Store's copy changes only by create and update.  After run_graph
\* aborted at a step after the first, RunStore.get(run_id) is the Run as create
\* stored it: current_node the start node, an empty log, the initial state.
C8_StoredRunAsCreated ==
    (pc = "raised" /\ Serving) =>
        RunStore_get(Run.run_id) =
            GraphRun(Run.run_id, graph_id, graph.start_node, initial_state, <<>>, FALSE)

\* C9: a current_node that the graph's nodes do not have makes the run fail with an
\* invalid-graph error the caller can tell from not-found: not the KeyError, and
\* not the 404, of an unknown graph id or tool name.
C9_DanglingIsInvalidGraph ==
    (pc = "raised" /\ Serving /\ Run.current_node \notin DOMAIN graph.nodes) =>
        /\ exc.type # "KeyError"
        /\ StatusOf(exc) # 404

\* The loop stands at a node with condition_key set and condition_op or
\* condition_value missing, and the guard lets it run.
AtPartialNode ==
    /\ pc = "loop"
    /\ Run.current_node \in DOMAIN graph.nodes
    /\ ~Run.finished
    /\ Run.state.iteration < max_iterations
    /\ LET cfg == graph.nodes[Run.current_node]
       IN  /\ cfg.condition_key \notin {None, ""}
           /\ cfg.condition_op = None \/ cfg.condition_value = NoneNum

\* C10: a node with condition_key but without condition_op or condition_value is
\* never routed: no graph holding one is stored, and a run that comes to one ends
\* with an error there.
C10_PartialConditionRejected ==
    [][ (AtPartialNode /\ Moved) => pc' = "raised" ]_vars

\* A node of g carries a condition_op that is none of the five operators.
HasUnknownOp(g) ==
    \E k \in DOMAIN g.nodes : g.nodes[k].condition_op \notin ConditionOps \cup {None}

\* C11: a node whose condition_op is none of >=, >, <=, <, == never reaches a routing
\* decision.  The graph that holds it is refused as invalid when it is posted (422,
\* nothing stored), so no node the engine executes and routes from carries such an
\* operator: it is never evaluated as a false condition.
C11_UnknownOpFailsFast ==
    [][ /\ \A g \in ClientGraphs : (CreateGraph(g) /\ HasUnknownOp(g)) =>
            /\ created'.status = 422
            /\ graphs' = graphs
        /\ \A id \in DOMAIN graphs' : ~HasUnknownOp(graphs'[id])
        /\ (pc = "loop" /\ clock' # clock) =>
            graph.nodes[Run.current_node].condition_op \in ConditionOps \cup {None}
      ]_vars

\* The graph with the operator "!=" was posted and refused.
C11_Witness ==
    /\ created.status = 422
    /\ created.detail = {"a"}
    /\ UnknownOp.id \notin DOMAIN graphs

\* The Graph Store holds another definition under the id of the running graph.
Overwritten ==
    /\ Serving
    /\ pc = "loop"
    /\ graph_id \in DOMAIN graphs
    /\ graphs[graph_id] # graph

\* C12: a save that overwrites the graph of a Run in mid-traversal does not reach
\* that Run.  run_graph's Graph object stays the one it took at its start; every
\* later step takes the node, its tool, the logged name and the next node from that
\* object; the stored definition is what a run started afterwards takes.
C12_RunKeepsCapturedGraph ==
    [][ /\ (Serving /\ run' = run) => graph' = graph
        /\ (Overwritten /\ clock' # clock) =>
            LET cfg == graph.nodes[Run.current_node]
                entry == heap'[run].log[Len(heap'[run].log)]
            IN  /\ entry.node = cfg.name
                /\ heap'[run].state = ApplyTool(cfg.tool, Run.state).state
                /\ pc' # "raised" =>
                       heap'[run].current_node = _decide_next_node(cfg, heap'[run].state)
        /\ (Overwritten /\ Moved /\ ~Run.finished
               /\ Run.current_node \notin DOMAIN graph.nodes \cup {None}
               /\ ~GuardTripped(Run.state, max_iterations)) => pc' = "raised"
        /\ (pc = "get_graph" /\ pc' = "create") => graph' = graphs[graph_id]
      ]_vars

\* A run of 'linear' was created at a and has executed it; the id now holds the
\* other definition, and the run goes on to b.
C12_Witness ==
    /\ Overwritten
    /\ graph = Linear
    /\ graphs[graph_id] = LinearSwapped
    /\ LoggedNodes(Run) = <<"a">>
    /\ Run.current_node = "b"

\* C13: finished is monotonic.  Once a GraphRun object (the one run_graph works on),
\* or the Run the store answers for a run id, has finished = true, no step of any
\* operation makes it false again.
C13_FinishedIsMonotonic ==
    [][ /\ \A o \in 1..Len(heap) : heap[o].finished =>
            /\ o \in 1..Len(heap')
            /\ heap'[o].finished
        /\ \A id \in DOMAIN runs : RunStore_get(id).finished =>
            /\ id \in DOMAIN runs'
            /\ heap'[runs'[id]].finished
      ]_vars

\* One run has finished and is stored; a later run_graph call has made its own Run
\* and executed a node.
C13_Witness ==
    /\ Len(heap) = 2
    /\ RunStore_get(1).finished
    /\ pc = "loop"
    /\ run = 2
    /\ Len(Run.log) = 1
    /\ ~Run.finished

\* The loop stands at a node whose tool is registered and returns on the state.
Executes ==
    /\ pc = "loop"
    /\ WhileCondition(Run)
    /\ ~GuardTripped(Run.state, max_iterations)
    /\ Run.current_node \in DOMAIN graph.nodes
    /\ LET tool == ToolRegistry_get(graph.nodes[Run.current_node].tool)
       IN  /\ tool.raises = None
           /\ ApplyTool(tool.tool, Run.state).raises = None

\* C14: the log is append-only and its snapshots are frozen.  A node that executes
\* appends exactly one entry, with the node's name and a copy of the state its tool
\* returned; no other step appends; and no step, whatever it does to the live state,
\* changes the node or the state_snapshot of an entry the log already has.
C14_LogAppendOnly ==
    [][ /\ \A o \in 1..Len(heap) :
            /\ Len(heap'[o].log) >= Len(heap[o].log)
            /\ \A i \in 1..Len(heap[o].log) :
                   /\ heap'[o].log[i].node = heap[o].log[i].node
                   /\ heap'[o].log[i].state_snapshot = heap[o].log[i].state_snapshot
        /\ (Executes /\ Moved) =>
            LET cfg == graph.nodes[Run.current_node]
                log == heap'[run].log
            IN  /\ Len(log) = Len(Run.log) + 1
                /\ log[Len(log)].node = cfg.name
                /\ log[Len(log)].state_snapshot = dict(ApplyTool(cfg.tool, Run.state).state)
                /\ \A o \in 1..Len(heap) : o # run => heap'[o].log = heap[o].log
        /\ ~Executes => \A o \in 1..Len(heap) : heap'[o].log = heap[o].log
      ]_vars

\* A run has logged two nodes, and the live state has moved on from what the first
\* entry holds.
C14_Witness ==
    /\ Serving
    /\ Len(Run.log) = 2
    /\ Run.log[1].state_snapshot # dict(Run.state)
    /\ Run.log[2].state_snapshot = dict(Run.state)
    /\ Run.log[1].node # Run.current_node

\* This step made the GraphRun obj for graph id and state, and stored it.
CreatedAsAsked(id, state, obj) ==
    /\ obj = Len(heap) + 1
    /\ heap' = Append(heap, heap'[obj])
    /\ heap'[obj].run_id \notin DOMAIN runs
    /\ \A o \in 1..Len(heap) : heap[o].run_id # heap'[obj].run_id
    /\ DOMAIN runs' = DOMAIN runs \cup {heap'[obj].run_id}
    /\ runs'[heap'[obj].run_id] = obj
    /\ \A rid \in DOMAIN runs : runs'[rid] = runs[rid]
    /\ heap'[obj].graph_id = id
    /\ heap'[obj].current_node = graphs[id].start_node
    /\ heap'[obj].state = state
    /\ heap'[obj].log = <<>>
    /\ ~heap'[obj].finished

\* C15: RunStore.create, called by run_graph or on its own.  For a graph id the
\* Graph Store has, it stores and returns a new Run whose run_id no Run has yet,
\* with current_node the start_node of the stored graph, the state it was given, an
\* empty log and finished false; for an unknown id it raises KeyError and the Run
\* Store is as before.
C15_CreateStoresFreshRun ==
    [][ /\ \A id \in DOMAIN graphs \cup {UnknownGraphId}, s \in StoreStates :
            RunStore_create(id, s) =>
                IF id \in DOMAIN graphs
                THEN /\ store_out'[1] = "return"
                     /\ CreatedAsAsked(id, s, store_out'[2])
                ELSE /\ store_out' = <<"raise", "KeyError">>
                     /\ runs' = runs
                     /\ heap' = heap
        /\ CreateRun =>
            /\ graph_id \in DOMAIN graphs
            /\ pc' = "loop"
            /\ CreatedAsAsked(graph_id, initial_state, run')
      ]_vars

\* RunStore.create, called on its own, has returned a second Run into a store that
\* held one.
C15_Witness ==
    /\ store_out = <<"return", 2>>
    /\ DOMAIN runs = {1, 2}
    /\ runs[2] = 2
    /\ heap[2].run_id = 2
    /\ heap[1].run_id = 1

\* C16: looking up a run is read-only and idempotent.  GET /graph/state/{run_id}
\* changes neither the Run Store nor any GraphRun; for a stored id it answers with
\* that Run's run_id, graph_id, current_node, finished, state and log, so a lookup
\* that follows one for the same id, the Run not having been touched in between,
\* gets the identical answer; an unknown id is answered 404.
C16_GetRunIdempotent ==
    [][ \A rid \in DOMAIN runs \cup {UnknownRunId} : get_graph_state(rid) =>
            /\ runs' = runs
            /\ heap' = heap
            /\ IF rid \in DOMAIN runs
               THEN LET r == heap[runs[rid]] IN
                    /\ state_response' =
                          [status |-> 200, run_id |-> rid, graph_id |-> r.graph_id,
                           finished |-> r.finished, current_node |-> r.current_node,
                           final_state |-> r.state, log |-> r.log]
                    /\ ( /\ state_response.status = 200
                         /\ state_response.run_id = rid
                         /\ state_response.log = r.log
                         /\ state_response.final_state = r.state
                         /\ state_response.current_node = r.current_node
                         /\ state_response.finished = r.finished )
                       => state_response' = state_response
               ELSE state_response' = [status |-> 404, detail |-> <<"Run not found", rid>>]
      ]_vars

\* One run was served and returned, and the two requests after it looked it up: the
\* last answer is the run as /graph/run returned it.
C16_Witness ==
    /\ n_requests = 3
    /\ created = NoResponse
    /\ store_out = Pending
    /\ response.status = 200
    /\ Len(heap) = 1
    /\ state_response = response
    /\ Len(state_response.log) = 4

\* The engine was invoked twice on the graph extract -> measure -> detect -> score
\* and both calls returned: the first call's first pass scored below 0.8, the second
\* call's pass scored 0.8 or more.
InvokedTwice ==
    /\ pc = "idle"
    /\ Len(heap) = 2
    /\ \A o \in {1, 2} :
          /\ heap[o].graph_id = ReviewLoop.id
          /\ heap[o].finished
          /\ Len(heap[o].log) >= 4
          /\ LoggedNodes(heap[o])[4] = "score"
    /\ heap[1].log[4].state_snapshot.quality_score < 80
    /\ heap[1].log[4].state_snapshot.iteration = 1
    /\ heap[2].state.quality_score >= 80

\* C17: on the four-node graph whose score node loops back to extract while quality
\* is below 0.8, a first pass that fails and a second that passes: after two
\* invocations of the engine the Run is finished with current_node None, and the
\* log entries of both invocations are 8 in all.
C17_TwoInvocationsLogEight ==
    InvokedTwice =>
        /\ heap[2].finished
        /\ heap[2].current_node = None
        /\ Len(heap[1].log) + Len(heap[2].log) = 8

\* The Run that the loop of run_graph, carried through with nothing else going on,
\* makes of Run r on graph g (followed as far as the log is followed; where the
\* call would raise, the Run as the exception leaves it).
RECURSIVE LoopAlone(_, _, _)
LoopAlone(g, r, limit) ==
    IF r.current_node = None \/ r.finished \/ Len(r.log) >= LogCap THEN r
    ELSE IF r.state.iteration >= limit THEN [r EXCEPT !.finished = TRUE]
    ELSE IF r.current_node \notin DOMAIN g.nodes THEN r
    ELSE LET cfg == g.nodes[r.current_node] IN
         IF cfg.tool \notin RegisteredTools THEN r
         ELSE LET out == ApplyTool(cfg.tool, r.state) IN
              IF out.raises # None THEN [r EXCEPT !.state = out.state]
              ELSE LET logged == [r EXCEPT !.state = out.state,
                                           !.log = Append(r.log, ExecutionLogEntry(
                                                       cfg.name, 0, dict(out.state)))]
                   IN  IF DecideRaises(cfg, out.state) # None THEN logged
                       ELSE LET next == _decide_next_node(cfg, out.state) IN
                            LoopAlone(g, [logged EXCEPT !.current_node = next,
                                                        !.finished = (next = None)],
                                      limit)

\* A Run without the times of its log entries.
Timeless(r) ==
    [r EXCEPT !.log = [i \in 1..Len(r.log) |-> [r.log[i] EXCEPT !.timestamp = 0]]]

\* C18: run_graph invocations share no mutable state.  A GraphRun is changed only by
\* steps of the call that made it; it starts from the state its own request carried;
\* and every step keeps it on the course the call would take alone, so the Run
\* returned is, run_id and times aside, the Run of the call executed alone, whatever
\* other runs, of the same graph or another, came before or are stored beside it.
C18_RunsShareNothing ==
    [][ /\ \A o \in 1..Len(heap) : heap'[o] # heap[o] => (o = run /\ pc = "loop")
        /\ (pc = "create" /\ pc' = "loop") =>
            /\ heap' = Append(heap, heap'[run'])
            /\ heap'[run'].state = initial_state
            /\ heap'[run'].log = <<>>
            /\ ~heap'[run'].finished
        /\ (pc = "loop" /\ Moved) =>
            Timeless(LoopAlone(graph, heap'[run], max_iterations))
                = Timeless(LoopAlone(graph, Run, max_iterations))
        /\ (pc = "update" /\ pc' = "returned") =>
            /\ run' = run
            /\ Run = LoopAlone(graph, Run, max_iterations)
      ]_vars

\* A second run of a graph has returned, the first run of the same graph still in
\* the store with a log and a state of its own.
C18_Witness ==
    /\ pc = "returned"
    /\ run = 2
    /\ heap[1].graph_id = heap[2].graph_id
    /\ Len(heap[1].log) > 0
    /\ Len(heap[2].log) > 0
    /\ heap[1].state # heap[2].state
    /\ runs[1] = 1

\* A step of a /graph/run request: from its arrival to its response.
RunGraphStep ==
    <<pc, heap, runs, exc, run, graph, response>>'
        # <<pc, heap, runs, exc, run, graph, response>>

\* C19: run_graph leaves the Graph Store and every Graph alone.  No step of a
\* /graph/run request, however the run ends, changes the set of stored graphs or the
\* start_node or nodes of any of them, nor the Graph the run holds; the store
\* changes only by a /graph/create request, and then only under the id posted.
C19_RunGraphKeepsGraphs ==
    [][ /\ RunGraphStep => graphs' = graphs
        /\ (Serving /\ run' = run) => graph' = graph
        /\ graphs' # graphs =>
            /\ created'.status = 200
            /\ n_requests' = n_requests + 1
            /\ DOMAIN graphs' = DOMAIN graphs \cup {created'.graph_id}
            /\ \A id \in DOMAIN graphs : id # created'.graph_id => graphs'[id] = graphs[id]
      ]_vars

\* A run of a posted graph was stopped by the guard after a node, the graph stored
\* as the run took it.
C19_Witness ==
    /\ pc = "returned"
    /\ Run.finished
    /\ Run.current_node # None
    /\ Len(Run.log) > 0
    /\ graph # DefaultGraph
    /\ graphs[graph_id] = graph

\* C20: a Run that run_graph returns is finished, and its current_node tells how it
\* ended.  Every turn of the loop starts with a current_node and finished false; the
\* loop is left either by the guard, with no node executed in that turn and
\* current_node kept (not None), or by a node whose next node is None, with
\* current_node None; either way finished is true, nothing changes between the loop
\* and the return, and so no returned Run has finished = false.
C20_ReturnedRunIsFinished ==
    [][ /\ (pc = "loop" /\ Moved) => WhileCondition(Run)
        /\ (pc = "loop" /\ pc' = "update") =>
            /\ heap'[run].finished
            /\ \/ /\ GuardTripped(Run.state, max_iterations)
                  /\ heap'[run].log = Run.log
                  /\ heap'[run].current_node = Run.current_node
                  /\ heap'[run].current_node # None
               \/ /\ ~GuardTripped(Run.state, max_iterations)
                  /\ Len(heap'[run].log) = Len(Run.log) + 1
                  /\ _decide_next_node(graph.nodes[Run.current_node],
                                       heap'[run].state) = None
                  /\ heap'[run].current_node = None
        /\ (pc = "update" /\ pc' # pc) =>
            /\ pc' = "returned"
            /\ heap' = heap
            /\ run' = run
        /\ pc' = "returned" => heap'[run'].finished
      ]_vars

\* The default graph ran its four nodes on code scoring below 0.8 and returned at the
\* None edge of the last one.
C20_Witness ==
    /\ pc = "returned"
    /\ Run.finished
    /\ Run.current_node = None
    /\ Run.state.quality_score < 80
    /\ LoggedNodes(Run) = <<"extract", "complexity", "issues", "suggest">>

\* C21: the start node and the nodes of a run come from one Graph.  A Run that has
\* executed nothing yet stands at the start_node of the Graph run_graph resolves its
\* nodes from, also when a save for the same id falls at the start of run_graph.
C21_StartNodeOfCapturedGraph ==
    (Serving /\ pc = "loop" /\ Run.log = <<>> /\ ~Run.finished) =>
        Run.current_node = graph.start_node

\* A run of the graph stored as 'code_review_default' that started below the
\* iteration limit.
DefaultRun ==
    /\ Serving
    /\ graph_id = "code_review_default"
    /\ initial_state.iteration < max_iterations

FourNodes == <<"extract", "complexity", "issues", "suggest">>

\* What C22 says of a run once the loop is left: the four nodes in order, then
\* current_node None, finished, and iteration one more than it started with.
RanFourNodes ==
    /\ LoggedNodes(Run) = FourNodes
    /\ Run.current_node = None
    /\ Run.finished
    /\ Run.state.iteration = initial_state.iteration + 1

\* C22 as claimed: every run of the default graph started with iteration below
\* max_iterations executes extract, complexity, issues, suggest in that order and
\* then stops with current_node None and finished true, whatever the quality score,
\* with iteration one more than at the start.
C22_DefaultGraphRunsFourNodes ==
    DefaultRun =>
        /\ pc # "raised"
        /\ pc \in {"update", "returned"} => RanFourNodes

\* C22 amended: the same, unless a tool raises on the code, in which case the run
\* ends there with the error.  While the loop runs, the log is the four nodes as far
\* as they have been executed and the run stands at the next of them, not finished;
\* a run that raised did so in a tool that cannot parse the code.
C22_DefaultGraphRunsFourNodesOrRaises ==
    DefaultRun =>
        /\ pc \in {"update", "returned"} => RanFourNodes
        /\ pc = "loop" =>
            /\ Len(Run.log) < 4
            /\ LoggedNodes(Run) = SubSeq(FourNodes, 1, Len(Run.log))
            /\ Run.current_node = FourNodes[Len(Run.log) + 1]
            /\ ~Run.finished
        /\ pc = "raised" =>
            /\ ParseOutcome(initial_state.code) # "ok"
            /\ exc.type = ParseOutcome(initial_state.code)
            /\ ~Run.finished

\* A run of the default graph that started at iteration 1 with the limit at 2 has
\* returned after its four nodes, the score at 0.8 or more.
C22_Witness ==
    /\ DefaultRun
    /\ pc = "returned"
    /\ initial_state.iteration = 1
    /\ Run.state.iteration = 2
    /\ Run.state.quality_score >= 80
    /\ RanFourNodes

\* What the four tools make of a state, one after the other.
Reviewed(state) ==
    suggest_improvements(
        detect_basic_issues(
            check_complexity(extract_functions(state).state).state).state).state

\* C23: in one websocket session every message with code, however many came before
\* it, is answered from a run of the default graph through its four nodes: the
\* reply's quality score and accepted flag are those of the message's code, and its
\* iteration is the session's iteration plus one.
C23_EveryCodeMessageIsReviewed ==
    [][WsSend =>
          /\ LoggedNodes(Run) = FourNodes
          /\ sent'.node = "finished"
          /\ sent'.quality_score = Reviewed(initial_state).quality_score
          /\ sent'.accepted =
                (Reviewed(initial_state).quality_score >= initial_state.threshold)
          /\ sent'.iteration = current_iteration + 1]_vars

\* C24: a websocket message without code, missing or empty, is answered with the
\* error reply and nothing else changes: no GraphRun is made or stored, the session
\* keeps its iteration, and it waits for the next message.
C24_NoCodeChangesNothing ==
    [][\A data \in Messages :
          (data.code \in {None, ""} /\ WsReceive(data)) =>
              /\ sent' = [error |-> "No code provided"]
              /\ websocket' = "receive"
              /\ UNCHANGED <<max_iterations, graphs, runs, heap, clock, pc, graph_id,
                             initial_state, graph, run, exc, current_iteration>>]_vars

\* A session that has had one message reviewed and then one without code refused.
C24_Witness ==
    /\ sent = [error |-> "No code provided"]
    /\ websocket = "receive"
    /\ current_iteration = 1
    /\ Len(heap) = 1
    /\ DOMAIN runs = {1}
    /\ pc = "idle"

====
